---- MODULE Spec2Model ----
(***************************************************************************)
(* Model of the browser front end of the Word Research Analyzer:           *)
(*   FileHandler      (web/assets/js/file-handler.js)                      *)
(*   APIClient        (web/assets/js/api-client.js)                        *)
(*   UIController and WordAnalyzerApp (unnamed/part_001)                   *)
(*   ResultDisplay    (unnamed/part_002)                                   *)
(* The DOM the scripts act on is the page of unnamed/part_000.             *)
(*                                                                         *)
(* An event handler runs to completion (JavaScript is single threaded), so *)
(* one action is one handler, or the part of an async function between two *)
(* awaits.  Handlers are written as operators on a "world" record          *)
(* [fh, ui, app, rd, validation, calls, threw] and composed in program     *)
(* order: calls collects the callbacks the handler invoked, threw is set   *)
(* when a statement raises, and the callers skip what follows it.          *)
(***************************************************************************)
EXTENDS Integers, Sequences, FiniteSets, TLC

VARIABLES
  fh,      \* FileHandler fields and the DOM nodes it owns
  ui,      \* UIController fields and the DOM nodes it owns
  app,     \* WordAnalyzerApp fields
  rd,      \* ResultDisplay fields
  runs,    \* the executions of handleAnalysisStart/performAnalysis, in start order
  vFile,   \* argument of a FileHandler.handleFileSelect call on a fresh page
  vResult, \* the checks that call evaluated and what validateFile returned
  tree,    \* the DocumentTree a DocumentSession of the analysis engine holds
  session, \* the artifacts that session has derived from the tree so far
  json,    \* an analysis output presented to the JSON output schema
  verdict, \* what the schema says of it
  xhr      \* the XMLHttpRequest and the promise of one APIClient.uploadFile call

engineVars == <<tree, session, json, verdict>>

vars == <<fh, ui, app, rd, runs, vFile, vResult, engineVars, xhr>>

(***************************************************************************)
(* Bounds                                                                  *)
(***************************************************************************)
MaxRuns == 2        \* analyses started in one page session
MaxNameLen == 5     \* length of the file names fed to validateFile

(***************************************************************************)
(* Values                                                                  *)
(***************************************************************************)
NoFile == [name |-> <<>>, size |-> -1]           \* null / undefined file
NoTree == [loaded |-> FALSE, paragraphs |-> <<>>, tables |-> <<>>]
NoSession == [done |-> {}]
NoJson == [written |-> FALSE, members |-> << >>]
NoVerdict == "none"
NoXhr == [readyState |-> "none"]                 \* uploadFile has not been called
EngineIdle == tree = NoTree /\ session = NoSession /\ json = NoJson /\ verdict = NoVerdict

NoId == [kind |-> "null", run |-> 0]             \* currentAnalysisId = null

maxFileSize == 100 * 1024 * 1024
allowedExtensions == << <<".", "d", "o", "c", "x">>, <<".", "d", "o", "c">> >>
retryAttempts == 3
retryDelay == 1000

Sections == {"upload-section", "options-section", "loading-section", "results-section"}
Checkboxes == {"plagiarismCheck", "autoParaphrase", "structureAnalysis", "qualityMetrics"}
ToggledBoxes == {"autoParaphrase"}  \* the boxes the modelled user toggles

Hidden == "(hidden)"
UnsupportedMsg == "Unsupported file type. Please upload a .docx or .doc file."
TooLargeMsg == "File too large. Maximum size allowed is 100MB."
EmptyMsg == "File appears to be empty or corrupted."
NoFileSelectedMsg == "No file selected for analysis."
InProgressMsg == "Analysis is already in progress."
GlobalErrorMsg == "An unexpected error occurred. Please refresh the page."
DemoModeMsg == "Backend server is not available. Using demo mode."
LoadedMsg == "File loaded successfully! Configure analysis options below."
CompletedMsg == "Analysis completed successfully! Review your results below."
UploadFailedMsg == "Failed to upload document: TypeError"
ResultsFailedMsg == "Failed to get analysis results: TypeError"

(***************************************************************************)
(* Strings are sequences of one-character strings.                         *)
(***************************************************************************)
Alphabet == {".", "d", "o", "c", "x", "D"}
UpperToLower == [ch \in {"D", "O", "C", "X"} |->
                   CASE ch = "D" -> "d" [] ch = "O" -> "o" [] ch = "C" -> "c" [] OTHER -> "x"]

SetMax(S) == CHOOSE m \in S : \A n \in S : n <= m

\* String.prototype.lastIndexOf, 0-based, -1 when absent
lastIndexOf(s, ch) ==
  LET I == {i \in 1..Len(s) : s[i] = ch}
  IN IF I = {} THEN -1 ELSE SetMax(I) - 1

\* String.prototype.substring(start): a negative start counts as 0
substring(s, start) ==
  LET st == IF start < 0 THEN 0 ELSE IF start > Len(s) THEN Len(s) ELSE start
  IN SubSeq(s, st + 1, Len(s))

toLowerCaseId(s) == s

toLowerCase(s) ==
  [i \in 1..Len(s) |-> IF s[i] \in DOMAIN UpperToLower THEN UpperToLower[s[i]] ELSE s[i]]

\* Array.prototype.includes
includes(arr, x) == \E i \in 1..Len(arr) : arr[i] = x

getFileExtension(filename) == substring(filename, lastIndexOf(filename, "."))

validateFileSizeFirst(file) ==
  IF file.size > maxFileSize
    THEN [valid |-> FALSE, message |-> TooLargeMsg, checks |-> <<"size">>]
  ELSE IF ~includes(allowedExtensions, toLowerCase(getFileExtension(file.name)))
    THEN [valid |-> FALSE, message |-> UnsupportedMsg, checks |-> <<"size", "extension">>]
  ELSE IF file.size = 0
    THEN [valid |-> FALSE, message |-> EmptyMsg, checks |-> <<"size", "extension", "empty">>]
  ELSE [valid |-> TRUE, message |-> "", checks |-> <<"size", "extension", "empty">>]

validateFileInclusive(file) ==
  IF ~includes(allowedExtensions, toLowerCase(getFileExtension(file.name)))
    THEN [valid |-> FALSE, message |-> UnsupportedMsg, checks |-> <<"extension">>]
  ELSE IF file.size >= maxFileSize
    THEN [valid |-> FALSE, message |-> TooLargeMsg, checks |-> <<"extension", "size">>]
  ELSE IF file.size = 0
    THEN [valid |-> FALSE, message |-> EmptyMsg, checks |-> <<"extension", "size", "empty">>]
  ELSE [valid |-> TRUE, message |-> "", checks |-> <<"extension", "size", "empty">>]

validateFileNoEmpty(file) ==
  IF ~includes(allowedExtensions, toLowerCase(getFileExtension(file.name)))
    THEN [valid |-> FALSE, message |-> UnsupportedMsg, checks |-> <<"extension">>]
  ELSE IF file.size > maxFileSize
    THEN [valid |-> FALSE, message |-> TooLargeMsg, checks |-> <<"extension", "size">>]
  ELSE [valid |-> TRUE, message |-> "", checks |-> <<"extension", "size">>]

\* FileHandler.validateFile; checks lists the conditions evaluated, in order
validateFile(file) ==
  IF ~includes(allowedExtensions, toLowerCase(getFileExtension(file.name)))
    THEN [valid |-> FALSE, message |-> UnsupportedMsg, checks |-> <<"extension">>]
  ELSE IF file.size > maxFileSize
    THEN [valid |-> FALSE, message |-> TooLargeMsg, checks |-> <<"extension", "size">>]
  ELSE IF file.size = 0
    THEN [valid |-> FALSE, message |-> EmptyMsg, checks |-> <<"extension", "size", "empty">>]
  ELSE [valid |-> TRUE, message |-> "", checks |-> <<"extension", "size", "empty">>]

(***************************************************************************)
(* UIController: sections, modals, loading steps, analysis options         *)
(***************************************************************************)
showSection(u, sectionId) ==
  [u EXCEPT !.visible = @ \cup {sectionId}, !.currentSection = sectionId]

hideSection(u, sectionId) == [u EXCEPT !.visible = @ \ {sectionId}]

hideAllSections(u) == [u EXCEPT !.visible = {}]

\* A modal is the message it shows, or Hidden: the text of a modal without
\* the 'show' class is displayed nowhere and read by no code.
showError(u, message) == [u EXCEPT !.errorModal = message]

showSuccess(u, message) == [u EXCEPT !.successModal = message]

hideAllModals(u) == [u EXCEPT !.errorModal = Hidden, !.successModal = Hidden]

resetAnalysisOptions(u) == [u EXCEPT !.checked = {"plagiarismCheck", "autoParaphrase"}]

getAnalysisOptions(u) == [c \in Checkboxes |-> c \in u.checked]

updateLoadingMessage(u, message) == [u EXCEPT !.loadingMessage = message]

resetLoadingSteps(u) == [u EXCEPT !.steps = [i \in 1..4 |-> {}]]

updateLoadingStepNoReset(u, stepNumber, status) ==
  LET upTo == [i \in 1..4 |->
                 IF i = stepNumber /\ status = "active" THEN u.steps[i] \cup {"active"}
                 ELSE IF i < stepNumber THEN u.steps[i] \cup {"completed"}
                 ELSE u.steps[i]]
      done == IF status = "completed"
                THEN [upTo EXCEPT ![stepNumber] = (@ \ {"active"}) \cup {"completed"}]
                ELSE upTo
  IN [u EXCEPT !.steps = done]

\* UIController.updateLoadingStep
updateLoadingStep(u, stepNumber, status) ==
  LET upTo == [i \in 1..4 |->
                 IF i = stepNumber /\ status = "active" THEN {"active"}
                 ELSE IF i < stepNumber THEN {"completed"}
                 ELSE {}]
      done == IF status = "completed"
                THEN [upTo EXCEPT ![stepNumber] = (@ \ {"active"}) \cup {"completed"}]
                ELSE upTo
  IN [u EXCEPT !.steps = done]

showLoading(u, message) ==
  resetLoadingSteps(updateLoadingMessage(
    showSection(hideAllSections(u), "loading-section"), message))

hideLoading(u) == hideSection(u, "loading-section")

showHomeView(u) == showSection(hideAllSections(u), "upload-section")

(***************************************************************************)
(* ResultDisplay                                                           *)
(***************************************************************************)
clearResults(r) == [r EXCEPT !.currentResults = "null", !.panels = "empty"]

\* ResultDisplay.generateReport: null without current results
generateReport(r) ==
  IF r.currentResults \in {"null", "undefined"} THEN "null" ELSE "report"

(***************************************************************************)
(* The world the handlers act on                                           *)
(***************************************************************************)
NoValidation == [valid |-> FALSE, message |-> "", checks |-> <<>>]

World ==
  [fh |-> fh, ui |-> ui, app |-> app, rd |-> rd, validation |-> NoValidation,
   calls |-> {}, threw |-> FALSE]

\* FileHandler.showFilePreview; the name and size it writes are those of
\* fh.currentFile, set on the line before the call
showFilePreview(w, file) == [w EXCEPT !.fh.filePreviewShown = TRUE]

\* FileHandler.hideFilePreview
hideFilePreview(w) == [w EXCEPT !.fh.filePreviewShown = FALSE]

\* FileHandler.updateProgress: uploadProgress becomes the clamped number
updateProgress(w, percentage) ==
  LET p == IF percentage < 0 THEN 0 ELSE IF percentage > 100 THEN 100 ELSE percentage
  IN [w EXCEPT !.fh.uploadProgress = [isElement |-> FALSE, value |-> p],
               !.fh.progressWidth = p,
               !.fh.progressText = p]

\* FileHandler.hideProgress: uploadProgress.style is undefined on a number,
\* and assigning .display on it raises a TypeError
hideProgress(w) ==
  IF w.fh.uploadProgress.isElement
    THEN [w EXCEPT !.fh.progressShown = FALSE]
    ELSE [w EXCEPT !.threw = TRUE]

\* FileHandler.showProgress: the same dereference as hideProgress
showProgress(w) ==
  IF w.fh.uploadProgress.isElement
    THEN [w EXCEPT !.fh.progressShown = TRUE]
    ELSE [w EXCEPT !.threw = TRUE]

\* FileHandler.resetProgress
resetProgress(w) ==
  hideProgress(updateProgress(
    [w EXCEPT !.fh.uploadProgress = [isElement |-> FALSE, value |-> 0]], 0))

\* WordAnalyzerApp.handleFileSelected (bound to FileHandler.onFileSelected)
handleFileSelected(w, file) ==
  [w EXCEPT !.ui = showSuccess(showSection(@, "options-section"), LoadedMsg),
            !.app.currentFile = file,
            !.calls = @ \cup {"onFileSelected"}]

\* WordAnalyzerApp.handleFileRemoved (bound to FileHandler.onFileRemoved)
handleFileRemoved(w) ==
  [w EXCEPT !.app.currentFile = NoFile,
            !.app.currentAnalysisId = NoId,
            !.ui = hideSection(hideSection(@, "options-section"), "results-section"),
            !.rd = clearResults(@),
            !.calls = @ \cup {"onFileRemoved"}]

\* FileHandler.removeFile
removeFile(w) ==
  LET w1 == hideFilePreview([w EXCEPT !.fh.currentFile = NoFile])
      w2 == [w1 EXCEPT !.ui = hideSection(@, "options-section"),
                       !.fh.uploadAreaShown = TRUE]
      w3 == resetProgress(w2)
  IN IF w3.threw THEN w3 ELSE handleFileRemoved(w3)

handleFileSelectNoReturn(w, file) ==
  IF file = NoFile
    THEN [w EXCEPT !.validation = [valid |-> FALSE, message |-> "", checks |-> <<"existence">>]]
  ELSE LET validation == validateFile(file)
           wv == [w EXCEPT !.validation =
                    [validation EXCEPT !.checks = <<"existence">> \o @]]
           we == IF ~validation.valid
                   THEN [wv EXCEPT !.ui = showError(@, validation.message)]
                   ELSE wv
           w1 == showFilePreview([we EXCEPT !.fh.currentFile = file], file)
           w2 == [w1 EXCEPT !.fh.uploadAreaShown = FALSE,
                            !.ui = showSection(@, "options-section")]
       IN handleFileSelected(w2, file)

\* FileHandler.handleFileSelect
handleFileSelect(w, file) ==
  IF file = NoFile
    THEN [w EXCEPT !.validation = [valid |-> FALSE, message |-> "", checks |-> <<"existence">>]]
  ELSE LET validation == validateFile(file)
           wv == [w EXCEPT !.validation =
                    [validation EXCEPT !.checks = <<"existence">> \o @]]
       IN IF ~validation.valid
            THEN [wv EXCEPT !.ui = showError(@, validation.message)]
            ELSE LET w1 == showFilePreview([wv EXCEPT !.fh.currentFile = file], file)
                     w2 == [w1 EXCEPT !.fh.uploadAreaShown = FALSE,
                                      !.ui = showSection(@, "options-section")]
                 IN handleFileSelected(w2, file)

\* WordAnalyzerApp.handleNewAnalysis (bound to UIController.onNewAnalysis)
appHandleNewAnalysis(w) ==
  LET w1 == [w EXCEPT !.app.currentFile = NoFile,
                      !.app.currentAnalysisId = NoId,
                      !.app.analysisInProgress = FALSE,
                      !.calls = @ \cup {"onNewAnalysis"}]
      w2 == removeFile(w1)
  IN IF w2.threw THEN w2
     ELSE [w2 EXCEPT !.rd = clearResults(@),
                     !.ui = resetAnalysisOptions(
                              showSection(hideAllSections(@), "upload-section"))]

\* UIController.handleNewAnalysis
uiHandleNewAnalysis(w) ==
  appHandleNewAnalysis(
    [w EXCEPT !.ui = resetAnalysisOptions(
                       showSection(hideAllSections(@), "upload-section"))])

\* window 'error' listener -> WordAnalyzerApp.handleGlobalError: what an
\* exception escaping an event listener leads to
handleGlobalError(w) ==
  IF w.threw
    THEN [w EXCEPT !.ui = showError(@, GlobalErrorMsg),
                   !.calls = @ \cup {"handleGlobalError"},
                   !.threw = FALSE]
    ELSE w

NoResultsForDownloadMsg == "No analysis results available for download."
DownloadedMsg == "Analysis report downloaded successfully!"
NoDocumentForExportMsg == "No processed document available for export."

\* ResultDisplay.downloadReport('json'): downloadFile is called with the
\* serialised report unless generateReport returned null
downloadReport(w) ==
  IF generateReport(w.rd) = "null" THEN w
  ELSE [w EXCEPT !.calls = @ \cup {"downloadFile"}]

\* WordAnalyzerApp.handleDownloadResults
handleDownloadResults(w) ==
  IF w.app.currentAnalysisId = NoId
    THEN [w EXCEPT !.ui = showError(@, NoResultsForDownloadMsg)]
    ELSE [downloadReport(w) EXCEPT !.ui = showSuccess(@, DownloadedMsg)]

\* WordAnalyzerApp.handleExportDocument up to its await: the guard
handleExportDocument(w) ==
  IF w.app.currentAnalysisId = NoId
    THEN [w EXCEPT !.ui = showError(@, NoDocumentForExportMsg)]
    ELSE [w EXCEPT !.calls = @ \cup {"delay"}]

Commit(w) ==
  /\ fh' = w.fh
  /\ ui' = w.ui
  /\ app' = w.app
  /\ rd' = w.rd

(***************************************************************************)
(* APIClient.handleError on the errors performAnalysis can raise: their    *)
(* messages carry none of the substrings the function looks for            *)
(***************************************************************************)
handleError(error) ==
  IF error.name = "AbortError" THEN "Request timeout. Please try again."
  ELSE error.message

(***************************************************************************)
(* Executions of handleAnalysisStart -> performAnalysis                    *)
(***************************************************************************)
InFlightPcs == {"upload", "mockUpload", "scan", "paraphrase", "fetch",
                "retryWait", "mockResults", "finalDelay"}

NewRun(file, options) ==
  [pc |-> "upload", file |-> file, autoParaphrase |-> options["autoParaphrase"],
   realOk |-> FALSE, attempt |-> 0, outcomes |-> <<>>, wait |-> 0,
   req |-> "none", thrownBy |-> 0, results |-> "none"]

\* a finished execution: how it ended ("done": displayResults returned,
\* "failed": the catch block of handleAnalysisStart ran) and whether any of
\* its real API requests had succeeded
Finished(r, how) ==
  [NewRun(NoFile, [c \in Checkboxes |-> FALSE]) EXCEPT !.pc = how, !.realOk = r.realOk]

InFlight == {i \in 1..Len(runs) : runs[i].pc \in InFlightPcs}

\* handleAnalysisStart up to the first await of performAnalysis (the XHR of
\* uploadFile is sent); started tells whether the guards were passed
handleAnalysisStartDefaulted(w, options) ==
  IF w.app.analysisInProgress
    THEN [w |-> [w EXCEPT !.ui = showError(@, InProgressMsg)], started |-> FALSE]
  ELSE
    [w |-> [w EXCEPT !.app.analysisInProgress = TRUE,
                     !.ui = updateLoadingMessage(
                              updateLoadingStep(showLoading(@, "Preparing analysis..."),
                                                1, "active"),
                              "Uploading document...")],
     started |-> TRUE]

handleAnalysisStart(w, options) ==
  IF w.app.currentFile = NoFile
    THEN [w |-> [w EXCEPT !.ui = showError(@, NoFileSelectedMsg)], started |-> FALSE]
  ELSE IF w.app.analysisInProgress
    THEN [w |-> [w EXCEPT !.ui = showError(@, InProgressMsg)], started |-> FALSE]
  ELSE
    [w |-> [w EXCEPT !.app.analysisInProgress = TRUE,
                     !.ui = updateLoadingMessage(
                              updateLoadingStep(showLoading(@, "Preparing analysis..."),
                                                1, "active"),
                              "Uploading document...")],
     started |-> TRUE]

\* a call of WordAnalyzerApp.handleAnalysisStart(options), up to its first await
StartAnalysisWith(options) ==
  LET r == handleAnalysisStart([World EXCEPT !.calls = {"onAnalysisStart"}], options)
  IN /\ r.started => Len(runs) < MaxRuns
     /\ Commit(r.w)
     /\ runs' = IF r.started THEN Append(runs, NewRun(app.currentFile, options)) ELSE runs
     /\ UNCHANGED <<vFile, vResult, engineVars, xhr>>

\* UIController.handleStartAnalysis -> onAnalysisStart -> handleAnalysisStart
StartAnalysis == StartAnalysisWith(getAnalysisOptions(ui))

SetRun(i, r) == runs' = [runs EXCEPT ![i] = r]

\* performAnalysis after the upload step: lines 698-709
afterUpload(w, id) ==
  [w EXCEPT !.app.currentAnalysisId = id,
            !.ui = updateLoadingMessage(
                     updateLoadingStep(updateLoadingStep(@, 1, "completed"), 2, "active"),
                     "Scanning for plagiarism...")]

\* performAnalysis step 4 up to the fetch of makeRequest: lines 724-731
startStep4(w) ==
  [w EXCEPT !.ui = updateLoadingMessage(updateLoadingStep(@, 4, "active"),
                                        "Generating analysis results...")]

analysisFailedNoFinally(w, message) ==
  [w EXCEPT !.ui = showError(hideLoading(@),
                             handleError([name |-> "Error", message |-> message]))]

\* the catch and finally blocks of handleAnalysisStart
analysisFailed(w, message) ==
  [w EXCEPT !.ui = showError(hideLoading(@),
                             handleError([name |-> "Error", message |-> message])),
            !.app.analysisInProgress = FALSE]

\* XHR 'load' with a 2xx status and a JSON body; body "null" makes
\* response.analysisId raise
UploadLoad(i, body) ==
  /\ i \in InFlight /\ runs[i].pc = "upload"
  /\ body \in {"withId", "null"}
  /\ IF body = "null"
       THEN /\ Commit(analysisFailed(World, UploadFailedMsg))
            /\ SetRun(i, Finished([runs[i] EXCEPT !.realOk = TRUE], "failed"))
       ELSE /\ Commit(afterUpload(World, [kind |-> "srv", run |-> i]))
            /\ SetRun(i, [runs[i] EXCEPT !.pc = "scan", !.wait = 2000, !.realOk = TRUE])
  /\ UNCHANGED <<vFile, vResult, engineVars, xhr>>

uploadRejectedNoFallback(w) ==
  [w |-> analysisFailed(w, "Failed to upload document: Analysis failed"), failed |-> TRUE]

\* performAnalysis lines 691-696: the rejection of analyzeDocument is caught
\* and mockAnalyzeDocument is awaited instead
uploadRejected(w) == [w |-> w, failed |-> FALSE]

\* XHR 'load' with another status or an unparsable body, 'error' or 'timeout':
\* analyzeDocument rejects and performAnalysis calls mockAnalyzeDocument
UploadFail(i) ==
  /\ i \in InFlight /\ runs[i].pc = "upload"
  /\ Commit(uploadRejected(World).w)
  /\ SetRun(i, IF uploadRejected(World).failed
                 THEN Finished(runs[i], "failed")
                 ELSE [runs[i] EXCEPT !.pc = "mockUpload", !.wait = 1000])
  /\ UNCHANGED <<vFile, vResult, engineVars, xhr>>

\* the timer of mockAnalyzeDocument
MockUploadDone(i) ==
  /\ i \in InFlight /\ runs[i].pc = "mockUpload"
  /\ Commit(afterUpload(World, [kind |-> "mock", run |-> i]))
  /\ SetRun(i, [runs[i] EXCEPT !.pc = "scan", !.wait = 2000])
  /\ UNCHANGED <<vFile, vResult, engineVars, xhr>>

\* makeRequest entered: attempt 1 fetches
FirstFetch(r) == [r EXCEPT !.pc = "fetch", !.wait = 0, !.attempt = 1, !.req = "pending"]

\* delay(2000) of step 2 over: lines 710-731
ScanDone(i) ==
  /\ i \in InFlight /\ runs[i].pc = "scan"
  /\ LET w1 == [World EXCEPT !.ui = updateLoadingStep(@, 2, "completed")]
     IN IF runs[i].autoParaphrase
          THEN /\ Commit([w1 EXCEPT !.ui = updateLoadingMessage(
                                             updateLoadingStep(@, 3, "active"),
                                             "Applying paraphrasing improvements...")])
               /\ SetRun(i, [runs[i] EXCEPT !.pc = "paraphrase", !.wait = 3000])
          ELSE /\ Commit(startStep4([w1 EXCEPT !.ui = updateLoadingStep(@, 3, "completed")]))
               /\ SetRun(i, FirstFetch(runs[i]))
  /\ UNCHANGED <<vFile, vResult, engineVars, xhr>>

\* delay(3000) of step 3 over: lines 718-731
ParaphraseDone(i) ==
  /\ i \in InFlight /\ runs[i].pc = "paraphrase"
  /\ Commit(startStep4([World EXCEPT !.ui = updateLoadingStep(@, 3, "completed")]))
  /\ SetRun(i, FirstFetch(runs[i]))
  /\ UNCHANGED <<vFile, vResult, engineVars, xhr>>

\* performAnalysis once results are in hand: lines 737-740
gotResults(w) == [w EXCEPT !.ui = updateLoadingStep(@, 4, "completed")]

\* makeRequest: fetch resolved with response.ok and a readable body
FetchOk(i, body) ==
  /\ i \in InFlight /\ runs[i].pc = "fetch"
  /\ body \in {"good", "noResults"}
  /\ Commit(gotResults(World))
  /\ SetRun(i, [runs[i] EXCEPT !.pc = "finalDelay", !.wait = 500,
                               !.outcomes = Append(@, "ok"),
                               !.req = "returned", !.results = body, !.realOk = TRUE])
  /\ UNCHANGED <<vFile, vResult, engineVars, xhr>>

makeRequestFailedNoLimit(r) ==
  [r EXCEPT !.pc = "retryWait", !.wait = retryDelay * r.attempt,
            !.outcomes = Append(@, "fail")]

makeRequestFailedFixedDelay(r) ==
  IF r.attempt = retryAttempts
    THEN [r EXCEPT !.pc = "mockResults", !.wait = 2000,
                   !.outcomes = Append(@, "fail"),
                   !.req = "threw", !.thrownBy = r.attempt]
    ELSE [r EXCEPT !.pc = "retryWait", !.wait = retryDelay,
                   !.outcomes = Append(@, "fail")]

\* makeRequest: the catch block of attempt r.attempt; after the last attempt
\* the error is rethrown and performAnalysis calls mockGetAnalysisResults
makeRequestFailed(r) ==
  IF r.attempt = retryAttempts
    THEN [r EXCEPT !.pc = "mockResults", !.wait = 2000,
                   !.outcomes = Append(@, "fail"),
                   !.req = "threw", !.thrownBy = r.attempt]
    ELSE [r EXCEPT !.pc = "retryWait", !.wait = retryDelay * r.attempt,
                   !.outcomes = Append(@, "fail")]

\* makeRequest: fetch rejected or aborted, response not ok, or body unreadable
FetchFail(i) ==
  /\ i \in InFlight /\ runs[i].pc = "fetch"
  /\ SetRun(i, makeRequestFailed(runs[i]))
  /\ UNCHANGED <<fh, ui, app, rd, vFile, vResult, engineVars, xhr>>

\* makeRequest: delay(retryDelay * attempt) over, next iteration fetches
RetryWaitDone(i) ==
  /\ i \in InFlight /\ runs[i].pc = "retryWait"
  /\ SetRun(i, [runs[i] EXCEPT !.pc = "fetch", !.wait = 0, !.attempt = @ + 1])
  /\ UNCHANGED <<fh, ui, app, rd, vFile, vResult, engineVars, xhr>>

\* the timer of mockGetAnalysisResults
MockResultsDone(i) ==
  /\ i \in InFlight /\ runs[i].pc = "mockResults"
  /\ Commit(gotResults(World))
  /\ SetRun(i, [runs[i] EXCEPT !.pc = "finalDelay", !.wait = 500, !.results = "mock"])
  /\ UNCHANGED <<vFile, vResult, engineVars, xhr>>

\* UIController.showResults
showResults(u) == showSection(hideAllSections(u), "results-section")

\* delay(500) over: hideLoading, displayResults(results.results) and the
\* rest of handleAnalysisStart (lines 741-742, 749-757, 674-680)
FinalDelayDone(i) ==
  /\ i \in InFlight /\ runs[i].pc = "finalDelay"
  /\ LET w1 == [World EXCEPT !.ui = hideLoading(@)]
         res == runs[i].results
     IN CASE res = "noResults" ->
               \* displayResults(undefined): the section is shown, then
               \* ResultDisplay.updateSummaryCards raises
               /\ Commit(analysisFailed(
                    [w1 EXCEPT !.ui = showResults(@), !.rd.currentResults = "undefined"],
                    ResultsFailedMsg))
               /\ SetRun(i, Finished(runs[i], "failed"))
          [] OTHER ->
               /\ Commit([w1 EXCEPT !.ui = showSuccess(showResults(@), CompletedMsg),
                                    !.rd.currentResults = res,
                                    !.rd.panels = "filled",
                                    !.app.analysisInProgress = FALSE])
               /\ SetRun(i, Finished(runs[i], "done"))
  /\ UNCHANGED <<vFile, vResult, engineVars, xhr>>

RunStep(i) ==
  \/ \E body \in {"withId", "null"} : UploadLoad(i, body)
  \/ UploadFail(i)
  \/ MockUploadDone(i)
  \/ ScanDone(i)
  \/ ParaphraseDone(i)
  \/ \E body \in {"good", "noResults"} : FetchOk(i, body)
  \/ FetchFail(i)
  \/ RetryWaitDone(i)
  \/ MockResultsDone(i)
  \/ FinalDelayDone(i)

(***************************************************************************)
(* User events.  A control can be used with the pointer only while it is   *)
(* displayed and no modal is shown: a modal with the 'show' class covers   *)
(* the whole viewport (components.css, .modal and .modal.show).  The       *)
(* keyboard shortcuts are always available.                                *)
(***************************************************************************)
PointerFree == ui.errorModal = Hidden /\ ui.successModal = Hidden

\* 'change' of the file input, or 'drop' on the upload area
SelectFile(file) ==
  /\ PointerFree
  /\ "upload-section" \in ui.visible /\ fh.uploadAreaShown
  /\ Commit(handleGlobalError(handleFileSelect(World, file)))
  /\ UNCHANGED <<runs, vFile, vResult, engineVars, xhr>>

\* click on the remove-file button of the file preview
ClickRemoveFile ==
  /\ PointerFree
  /\ "upload-section" \in ui.visible /\ fh.filePreviewShown
  /\ Commit(handleGlobalError(removeFile(World)))
  /\ UNCHANGED <<runs, vFile, vResult, engineVars, xhr>>

\* click on the Start Analysis button of the options section
ClickStartAnalysis ==
  /\ PointerFree
  /\ "options-section" \in ui.visible
  /\ StartAnalysis

\* UIController.handleKeyboardShortcuts, Ctrl/Cmd+Enter
CtrlEnter ==
  IF ui.currentSection = "options-section"
    THEN StartAnalysis
    ELSE UNCHANGED vars

NewAnalysis ==
  /\ Commit(handleGlobalError(uiHandleNewAnalysis(World)))
  /\ UNCHANGED <<runs, vFile, vResult, engineVars, xhr>>

\* click on the New Analysis button of the results section
ClickNewAnalysis ==
  /\ PointerFree
  /\ "results-section" \in ui.visible
  /\ NewAnalysis

\* UIController.handleKeyboardShortcuts, Ctrl/Cmd+N
CtrlN == NewAnalysis

\* click on the Home link: UIController.handleNavigation('#home')
NavigateHome ==
  /\ PointerFree
  /\ Commit([World EXCEPT !.ui = showHomeView(@)])
  /\ UNCHANGED <<runs, vFile, vResult, engineVars, xhr>>

\* Escape key: UIController.hideAllModals
PressEscape ==
  /\ ui.errorModal # Hidden \/ ui.successModal # Hidden
  /\ Commit([World EXCEPT !.ui = hideAllModals(@)])
  /\ UNCHANGED <<runs, vFile, vResult, engineVars, xhr>>

\* the user ticks or unticks one of the analysis option checkboxes
ToggleOption(c) ==
  /\ PointerFree
  /\ "options-section" \in ui.visible
  /\ Commit([World EXCEPT !.ui.checked =
               IF c \in @ THEN @ \ {c} ELSE @ \cup {c}])
  /\ UNCHANGED <<runs, vFile, vResult, engineVars, xhr>>

(***************************************************************************)
(* The page once WordAnalyzerApp.init() has run: modules built, events     *)
(* bound, the server pinged (online or not) and initializeUI done          *)
(***************************************************************************)
FileA == [name |-> <<"a", ".", "d", "o", "c", "x">>, size |-> 2048]
FilePdf == [name |-> <<"c", ".", "p", "d", "f">>, size |-> 2048]
FileEmpty == [name |-> <<"d", ".", "d", "o", "c", "x">>, size |-> 0]
AppFiles == {FileA, FilePdf, FileEmpty}

\* WordAnalyzerApp.checkAPIConnectivity
checkAPIConnectivity(u, online) == IF online THEN u ELSE showError(u, DemoModeMsg)

\* WordAnalyzerApp.initializeUI
initializeUI(u) == resetAnalysisOptions(showSection(u, "upload-section"))

InitPage ==
  /\ fh = [currentFile |-> NoFile,
           uploadProgress |-> [isElement |-> TRUE, value |-> 0],
           uploadAreaShown |-> TRUE, filePreviewShown |-> FALSE,
           progressShown |-> FALSE, progressWidth |-> -1, progressText |-> 0]
  /\ \E online \in BOOLEAN :
       ui = initializeUI(checkAPIConnectivity(
              [visible |-> {"upload-section"}, currentSection |-> "home",
               steps |-> [i \in 1..4 |-> {}], loadingMessage |-> "Preparing analysis...",
               errorModal |-> Hidden, successModal |-> Hidden,
               checked |-> {"plagiarismCheck", "autoParaphrase"},
               activeTab |-> "overview",
               highlightChangesBtn |-> [active |-> FALSE,
                                        listeners |-> <<"toggleHighlights">>]],
              online))
  /\ app = [currentFile |-> NoFile, currentAnalysisId |-> NoId,
            analysisInProgress |-> FALSE]
  /\ rd = [currentResults |-> "null", panels |-> "empty",
           highlightingEnabled |-> FALSE]
  /\ runs = <<>>

Init ==
  /\ InitPage
  /\ vFile = NoFile
  /\ vResult = NoValidation
  /\ EngineIdle
  /\ xhr = NoXhr

Next ==
  \/ \E file \in AppFiles \cup {NoFile} : SelectFile(file)
  \/ ClickRemoveFile
  \/ ClickStartAnalysis
  \/ CtrlEnter
  \/ ClickNewAnalysis
  \/ CtrlN
  \/ NavigateHome
  \/ PressEscape
  \/ \E c \in ToggledBoxes : ToggleOption(c)
  \/ \E i \in 1..MaxRuns : RunStep(i)

Spec == Init /\ [][Next]_vars

(***************************************************************************)
(* The same page when other code of the page calls the public method       *)
(* window.app.handleAnalysisStart directly, whatever section is shown      *)
(* (the object is published as window.app on DOMContentLoaded)            *)
(***************************************************************************)
DirectOptions ==
  {[c \in Checkboxes |-> IF c = "autoParaphrase" THEN ap ELSE c = "plagiarismCheck"] :
     ap \in BOOLEAN}

CallHandleAnalysisStart == \E options \in DirectOptions : StartAnalysisWith(options)

NextDirect ==
  \/ \E file \in {FileA} : SelectFile(file)
  \/ CtrlN
  \/ PressEscape
  \/ CallHandleAnalysisStart
  \/ \E i \in 1..MaxRuns : RunStep(i)

SpecDirect == Init /\ [][NextDirect]_vars

(***************************************************************************)
(* The page driven from the keyboard, every awaited request and timer of   *)
(* an analysis settling eventually                                         *)
(***************************************************************************)
NextKeys ==
  \/ \E file \in {FileA} : SelectFile(file)
  \/ CtrlEnter
  \/ CtrlN
  \/ PressEscape
  \/ \E i \in 1..MaxRuns : RunStep(i)

SpecSettling ==
  /\ Init
  /\ [][NextKeys]_vars
  /\ \A i \in 1..MaxRuns : WF_vars(RunStep(i))

(***************************************************************************)
(* FileHandler.handleFileSelect taken alone: one call on a fresh page, for *)
(* every file name over Alphabet up to MaxNameLen and every size of Sizes  *)
(***************************************************************************)
Sizes == {0, 1, maxFileSize - 1, maxFileSize, maxFileSize + 1}
AllNames == UNION {[1..n -> Alphabet] : n \in 0..MaxNameLen}
AllFiles == {[name |-> n, size |-> sz] : n \in AllNames, sz \in Sizes}

InitValidate ==
  /\ InitPage
  /\ ui.errorModal = Hidden
  /\ vFile \in AllFiles \cup {NoFile}
  /\ vResult = NoValidation
  /\ EngineIdle
  /\ xhr = NoXhr

ValidateCall ==
  /\ vResult = NoValidation
  /\ LET w == handleFileSelect(World, vFile)
     IN Commit(w) /\ vResult' = w.validation
  /\ UNCHANGED <<runs, vFile, engineVars, xhr>>

NextValidate == ValidateCall

SpecValidate == InitValidate /\ [][NextValidate]_vars

(***************************************************************************)
(* What the specification says of a file, stated without the code's string *)
(* functions: the extension is the part of the name from its last '.', and *)
(* it is allowed when it reads .docx or .doc in any mix of cases           *)
(***************************************************************************)
SameLetter(a, b) ==
  \/ a = b
  \/ <<a, b>> \in {<<"D", "d">>, <<"O", "o">>, <<"C", "c">>, <<"X", "x">>}

ReadsAs(s, word) ==
  /\ Len(s) = Len(word)
  /\ \A j \in 1..Len(s) : SameLetter(s[j], word[j])

HasAllowedExtension(name) ==
  \E k \in 1..Len(name) :
    /\ name[k] = "."
    /\ \A j \in (k + 1)..Len(name) : name[j] # "."
    /\ \/ ReadsAs(SubSeq(name, k + 1, Len(name)), <<"d", "o", "c", "x">>)
       \/ ReadsAs(SubSeq(name, k + 1, Len(name)), <<"d", "o", "c">>)

LimitBytes == 100 * 1024 * 1024

\* the first check of the documented order that a file fails
FirstFailing(file) ==
  IF file = NoFile THEN "existence"
  ELSE IF ~HasAllowedExtension(file.name) THEN "extension"
  ELSE IF file.size > LimitBytes THEN "size"
  ELSE IF file.size = 0 THEN "empty"
  ELSE "none"

CheckOrder == <<"existence", "extension", "size", "empty">>

UpTo(check) ==
  IF check = "none" THEN CheckOrder
  ELSE SubSeq(CheckOrder, 1, CHOOSE k \in 1..4 : CheckOrder[k] = check)

MessageOf(check) ==
  CASE check = "extension" -> UnsupportedMsg
    [] check = "size" -> TooLargeMsg
    [] check = "empty" -> EmptyMsg
    [] OTHER -> ""

Validated == vResult # NoValidation

\* C2: validateFile accepts a file only if the part of its name from the last
\* '.' is .docx or .doc compared case-insensitively; every other name, a name
\* without a '.' included, gets the unsupported-file-type result, and only
\* those names get it.
C2_ExtensionRule ==
  (Validated /\ vFile # NoFile) =>
     /\ vResult.valid => HasAllowedExtension(vFile.name)
     /\ ~HasAllowedExtension(vFile.name) <=>
          (~vResult.valid /\ vResult.message = UnsupportedMsg)
     /\ ~HasAllowedExtension(vFile.name) =>
          (ui.errorModal = UnsupportedMsg /\ fh.currentFile = NoFile)

\* a name whose extension is written in mixed case has been accepted
C2_Witness ==
  /\ Validated /\ vResult.valid
  /\ vFile.name = <<"d", ".", "D", "o", "c">>
  /\ fh.currentFile = vFile

\* C3: the checks run in the order existence, extension, size, emptiness and
\* only the first failing one is reported: the checks evaluated are those of
\* the order up to the first failing one, and the message is that check's.
C3_FirstFailureOnly ==
  Validated =>
     /\ vResult.checks = UpTo(FirstFailing(vFile))
     /\ vResult.valid <=> FirstFailing(vFile) = "none"
     /\ vResult.message = MessageOf(FirstFailing(vFile))
     /\ ui.errorModal = IF FirstFailing(vFile) \in {"existence", "none"}
                          THEN Hidden ELSE MessageOf(FirstFailing(vFile))

\* a file with a disallowed extension and a size above the limit has been
\* reported as an unsupported file type
C3_Witness ==
  /\ Validated
  /\ vFile # NoFile /\ vFile.size > LimitBytes /\ ~HasAllowedExtension(vFile.name)
  /\ vResult.message = UnsupportedMsg
  /\ vResult.checks = <<"existence", "extension">>

\* C4: with the default limit of 100 MB a file with an allowed extension is
\* rejected as too large exactly when its size exceeds 104857600 bytes; a
\* file of exactly 104857600 bytes is accepted.
C4_SizeLimit ==
  (Validated /\ vFile # NoFile /\ HasAllowedExtension(vFile.name)) =>
     /\ (~vResult.valid /\ vResult.message = TooLargeMsg) <=> vFile.size > LimitBytes
     /\ vFile.size = LimitBytes => (vResult.valid /\ fh.currentFile = vFile)

\* a file of exactly the limit has been accepted
C4_Witness ==
  /\ Validated /\ vFile # NoFile
  /\ vFile.size = LimitBytes /\ HasAllowedExtension(vFile.name)
  /\ vResult.valid /\ app.currentFile = vFile

(***************************************************************************)
(* The page as a whole                                                     *)
(***************************************************************************)

\* C1: at most one performAnalysis execution is in flight at any time.
C1_SingleAnalysis == Cardinality(InFlight) <= 1

EmptyAllowed(file) ==
  file # NoFile /\ file.size = 0 /\ HasAllowedExtension(file.name)

\* C5: a file of size 0 with an allowed extension always fails validation
\* with the empty-file error when it is selected, and no analysis is ever
\* started nor any upload issued for such a file: it never becomes the
\* current file of the file handler or of the application, and no execution
\* of performAnalysis carries it.
C5_EmptyNeverAnalysed ==
  /\ [](/\ ~EmptyAllowed(fh.currentFile)
        /\ ~EmptyAllowed(app.currentFile)
        /\ \A i \in 1..MaxRuns : i \in InFlight => ~EmptyAllowed(runs[i].file))
  /\ [][\A f \in AppFiles :
          (EmptyAllowed(f) /\ SelectFile(f)) =>
             /\ ui'.errorModal = EmptyMsg
             /\ UNCHANGED <<fh, app, runs>>]_vars

\* an empty .docx file has been selected while another file was current
C5_Witness == ui.errorModal = EmptyMsg /\ app.currentFile = FileA

\* C6: selecting a file that fails validation shows the error and leaves
\* FileHandler.currentFile, app.currentFile, currentAnalysisId, the set of
\* visible sections and the file preview unchanged, and onFileSelected is
\* not invoked.
C6_InvalidSelectionInert ==
  [][\A f \in AppFiles :
       (FirstFailing(f) \in {"extension", "size", "empty"} /\ SelectFile(f)) =>
          /\ ui'.errorModal = MessageOf(FirstFailing(f))
          /\ fh'.currentFile = fh.currentFile
          /\ fh'.filePreviewShown = fh.filePreviewShown
          /\ app'.currentFile = app.currentFile
          /\ app'.currentAnalysisId = app.currentAnalysisId
          /\ ui'.visible = ui.visible
          /\ ui'.successModal = ui.successModal
          /\ "onFileSelected" \notin handleFileSelect(World, f).calls]_vars

\* a file of an unsupported type has been selected while the application
\* held a file and an analysis id
C6_Witness ==
  /\ ui.errorModal = UnsupportedMsg
  /\ app.currentFile = FileA
  /\ app.currentAnalysisId # NoId

AllFail(outcomes) == \A k \in 1..Len(outcomes) : outcomes[k] = "fail"

\* C7: makeRequest makes at most 3 fetch attempts; it returns the response
\* of the first attempt that succeeds and makes no further attempt; when all
\* 3 attempts fail it throws the error of the third; past makeRequest there
\* is always a returned result or a thrown error.
C7_RetryBound ==
  \A i \in 1..MaxRuns : i \in InFlight =>
    LET r == runs[i] IN
      /\ r.attempt <= 3
      /\ Len(r.outcomes) <= r.attempt
      /\ r.req = "none" => (r.attempt = 0 /\ r.outcomes = <<>>)
      /\ r.req = "pending" =>
           /\ r.pc \in {"fetch", "retryWait"}
           /\ AllFail(r.outcomes)
           /\ Len(r.outcomes) = IF r.pc = "fetch" THEN r.attempt - 1 ELSE r.attempt
      /\ r.req = "returned" =>
           /\ Len(r.outcomes) = r.attempt
           /\ r.outcomes[r.attempt] = "ok"
           /\ AllFail(SubSeq(r.outcomes, 1, r.attempt - 1))
           /\ r.results \in {"good", "noResults"}
           /\ r.pc = "finalDelay"
      /\ r.req = "threw" =>
           /\ r.attempt = 3
           /\ Len(r.outcomes) = 3 /\ AllFail(r.outcomes)
           /\ r.thrownBy = 3
      /\ r.pc \in {"mockResults", "finalDelay"} => r.req \in {"returned", "threw"}

\* a request has returned the response of its third attempt
C7_Witness ==
  \E i \in 1..MaxRuns :
    /\ i \in InFlight
    /\ runs[i].req = "returned"
    /\ runs[i].outcomes = <<"fail", "fail", "ok">>

\* C9: an analysis none of whose real API requests succeeds never takes the
\* error path: its upload step and its results step fall back to the mock
\* functions, and it ends with the results section shown, filled from the
\* mock results.
C9_MockFallback ==
  /\ [](\A i \in 1..MaxRuns :
          (i \in 1..Len(runs) /\ runs[i].pc = "failed") => runs[i].realOk)
  /\ [][\A i \in 1..MaxRuns :
          (i \in InFlight /\ ~runs'[i].realOk /\ runs'[i].pc \notin InFlightPcs) =>
             /\ runs[i].results = "mock"
             /\ runs'[i].pc = "done"
             /\ "results-section" \in ui'.visible
             /\ rd'.currentResults = "mock" /\ rd'.panels = "filled"
             /\ ui'.errorModal = ui.errorModal]_vars

\* an analysis whose upload and whose three fetch attempts all failed has
\* ended with the results section shown
C9_Witness ==
  \E i \in 1..MaxRuns :
    /\ i \in 1..Len(runs)
    /\ runs[i].pc = "done" /\ ~runs[i].realOk
    /\ "results-section" \in ui.visible
    /\ rd.currentResults = "mock"
    /\ ui.errorModal = Hidden

\* C8: every analysis that passes the guards of handleAnalysisStart ends,
\* with the results section shown or with the error modal shown, and
\* analysisInProgress is false when it has ended.
C8_AnalysisEnds ==
  /\ \A i \in 1..MaxRuns :
       (i \in InFlight) ~> (i \in 1..Len(runs) /\ runs[i].pc \in {"done", "failed"})
  /\ [][\A i \in 1..MaxRuns :
          (i \in InFlight /\ runs'[i].pc \notin InFlightPcs) =>
             /\ runs'[i].pc \in {"done", "failed"}
             /\ runs'[i].pc = "done" => "results-section" \in ui'.visible
             /\ runs'[i].pc = "failed" => ui'.errorModal \in {UploadFailedMsg, ResultsFailedMsg}
             /\ ~app'.analysisInProgress]_vars

\* an analysis has ended on the error path and another on the results path
C8_Witness ==
  /\ Len(runs) = 2
  /\ runs[1].pc = "failed" /\ runs[2].pc = "done"
  /\ "results-section" \in ui.visible
  /\ ~app.analysisInProgress

\* C10: handleAnalysisStart called while currentFile is null reports 'No file
\* selected for analysis.' and does nothing else: no analysis is started, no
\* request is issued, analysisInProgress is not set and no section is shown.
C10_NoFileNoAnalysis ==
  [][(app.currentFile = NoFile /\ CallHandleAnalysisStart) =>
        /\ ui' = [ui EXCEPT !.errorModal = NoFileSelectedMsg]
        /\ "loading-section" \notin ui'.visible
        /\ UNCHANGED <<app, runs, fh, rd>>]_vars

\* the handler has been called without a file while nothing was in progress
C10_Witness ==
  /\ ui.errorModal = NoFileSelectedMsg
  /\ app.currentFile = NoFile
  /\ ~app.analysisInProgress
  /\ InFlight = {}

\* C11: when performAnalysis throws, handleAnalysisStart lets nothing
\* escape: the loading section is hidden, the error modal shows the message
\* of APIClient.handleError, the results section is not shown and
\* analysisInProgress is false again.
C11_FailureShowsError ==
  [][\A i \in 1..MaxRuns :
       (i \in InFlight /\ runs'[i].pc = "failed") =>
          /\ "loading-section" \notin ui'.visible
          /\ ui'.errorModal \in {UploadFailedMsg, ResultsFailedMsg}
          /\ "results-section" \notin ui'.visible
          /\ ~app'.analysisInProgress]_vars

\* C19: downloading or exporting while currentAnalysisId is null shows an
\* error and produces no file; whenever the results section is visible,
\* currentAnalysisId is non-null and 'Download Report' produces the report.
C19_ResultsCanBeDownloaded ==
  /\ app.currentAnalysisId = NoId =>
       /\ handleDownloadResults(World).ui.errorModal = NoResultsForDownloadMsg
       /\ handleDownloadResults(World).calls = {}
       /\ handleExportDocument(World).ui.errorModal = NoDocumentForExportMsg
       /\ handleExportDocument(World).calls = {}
  /\ "results-section" \in ui.visible =>
       /\ app.currentAnalysisId # NoId
       /\ "downloadFile" \in handleDownloadResults(World).calls

\* C20: New Analysis (button or Ctrl/Cmd+N) resets everything from any
\* state: both currentFile fields and currentAnalysisId are null,
\* analysisInProgress is false, the results are cleared, the upload section
\* is the only visible section and the options are back to their defaults.
C20_NewAnalysisResets ==
  [][NewAnalysis =>
       /\ app'.currentFile = NoFile
       /\ app'.currentAnalysisId = NoId
       /\ ~app'.analysisInProgress
       /\ fh'.currentFile = NoFile
       /\ rd'.currentResults = "null" /\ rd'.panels = "empty"
       /\ ui'.visible = {"upload-section"}
       /\ ui'.checked = {"plagiarismCheck", "autoParaphrase"}]_vars

(***************************************************************************)
(* The Document Structure Analysis Engine (paragraph classifier, heading   *)
(* hierarchy builder, table extractor, statistics aggregator).  Texts,     *)
(* style names and cell texts are sequences of characters; an absent       *)
(* optional integer is NoLevel.  Only the fields the properties below read *)
(* are carried: run formatting, alignment and metadata are left out.       *)
(***************************************************************************)
MaxParagraphs == 3   \* paragraphs of a DocumentTree
MaxRows == 3         \* rows of a table
MaxRowLen == 3       \* cells of a row

Whitespace == {" "}
Terminators == {".", "!", "?"}
NoLevel == -1
EmptyString == <<>>

RECURSIVE SumSeq(_)
SumSeq(q) == IF q = <<>> THEN 0 ELSE Head(q) + SumSeq(Tail(q))

MaxOf(S) == IF S = {} THEN 0 ELSE CHOOSE m \in S : \A n \in S : n <= m

\* "Heading N" for N in 1..9
HeadingStyleNames ==
  [n \in 1..9 |-> <<"H", "e", "a", "d", "i", "n", "g", " ">> \o
     << <<"1", "2", "3", "4", "5", "6", "7", "8", "9">>[n] >>]

heading_level_of(style_name) ==
  IF \E n \in 1..9 : HeadingStyleNames[n] = style_name
    THEN CHOOSE n \in 1..9 : HeadingStyleNames[n] = style_name
    ELSE NoLevel

\* Paragraph Classifier: one ParagraphInfo per paragraph node, in source order
classify(t) ==
  [i \in 1..Len(t.paragraphs) |->
     [index |-> i - 1,
      text |-> t.paragraphs[i].text,
      style_name |-> t.paragraphs[i].style_name,
      is_heading |-> heading_level_of(t.paragraphs[i].style_name) # NoLevel,
      heading_level |-> heading_level_of(t.paragraphs[i].style_name)]]

is_heading(p) == p.is_heading

build_headingsReindexed(paragraphs) ==
  LET hs == SelectSeq(paragraphs, is_heading)
  IN [i \in 1..Len(hs) |->
        [index |-> i - 1, text |-> hs[i].text, level |-> hs[i].heading_level,
         style_name |-> hs[i].style_name, paragraph_index |-> i - 1]]

\* Heading Hierarchy Builder: the heading paragraphs in source order, with a
\* new 0-based index and the paragraph's index as back-reference
build_headings(paragraphs) ==
  LET hs == SelectSeq(paragraphs, is_heading)
  IN [i \in 1..Len(hs) |->
        [index |-> i - 1, text |-> hs[i].text, level |-> hs[i].heading_level,
         style_name |-> hs[i].style_name, paragraph_index |-> hs[i].index]]

\* cell text without its leading and trailing whitespace
RECURSIVE trim(_)
trim(text) ==
  IF text = <<>> THEN text
  ELSE IF Head(text) \in Whitespace THEN trim(Tail(text))
  ELSE IF text[Len(text)] \in Whitespace THEN trim(SubSeq(text, 1, Len(text) - 1))
  ELSE text

extract_tableFirstRow(node, index) ==
  LET columns == IF node.rows = <<>> THEN 0 ELSE Len(node.rows[1])
  IN [index |-> index, rows |-> Len(node.rows), columns |-> columns,
      data |-> [r \in 1..Len(node.rows) |->
                  [c \in 1..columns |->
                     IF c <= Len(node.rows[r]) THEN trim(node.rows[r][c])
                     ELSE EmptyString]]]

\* Table Extractor, one table node: columns is the longest row's length and
\* every row is padded to it with empty strings
extract_table(node, index) ==
  LET columns == MaxOf({Len(node.rows[r]) : r \in 1..Len(node.rows)})
  IN [index |-> index, rows |-> Len(node.rows), columns |-> columns,
      data |-> [r \in 1..Len(node.rows) |->
                  [c \in 1..columns |->
                     IF c <= Len(node.rows[r]) THEN trim(node.rows[r][c])
                     ELSE EmptyString]]]

extract_tables(t) == [i \in 1..Len(t.tables) |-> extract_table(t.tables[i], i - 1)]

word_countSplitOnSpace(text) ==
  Cardinality({i \in 1..Len(text) : text[i] \in Whitespace}) + 1

\* whitespace-delimited tokens of a text; the empty text has none
word_count(text) ==
  Cardinality({i \in 1..Len(text) :
                 text[i] \notin Whitespace /\ (i = 1 \/ text[i - 1] \in Whitespace)})

sentence_countPerParagraph(text) ==
  LET n == Cardinality({i \in 1..Len(text) :
                   text[i] \in Terminators /\ (i = 1 \/ text[i - 1] \notin Terminators)})
  IN IF n = 0 /\ text # <<>> THEN 1 ELSE n

\* occurrences of '.', '!', '?', consecutive ones counting once
sentence_count(text) ==
  Cardinality({i \in 1..Len(text) :
                 text[i] \in Terminators /\ (i = 1 \/ text[i - 1] \notin Terminators)})

characters_no_spaces(text) == Cardinality({i \in 1..Len(text) : text[i] \notin Whitespace})

words_per_minute == 200

\* total_words / words_per_minute rounded to two decimals, in hundredths of
\* a minute
reading_time(total_words) ==
  (2 * 100 * total_words + words_per_minute) \div (2 * words_per_minute)

\* reference bounds of the four components of the complexity score, and the
\* weightings (in tenths, summing to 1) an implementation may fix
RefSentenceLength == 30
RefWordLength == 10
RefHeadingLevels == 9
RefTableDensity == 1
Weightings == {<<4, 3, 2, 1>>, <<1, 7, 1, 1>>, <<0, 0, 0, 10>>, <<3, 3, 2, 2>>}

normalizeUnclamped(num, den) ==
  IF den = 0 THEN 0 ELSE (1000 * num) \div den

\* num/den against its reference bound, in thousandths of [0,1]; a zero
\* denominator is defaulted to 0
normalize(num, den) ==
  IF den = 0 THEN 0
  ELSE IF (1000 * num) \div den > 1000 THEN 1000
  ELSE (1000 * num) \div den

\* Statistics Aggregator; complexity is in thousandths of the 0-10 scale
aggregate(paragraphs, headings, tables, weights) ==
  LET words == SumSeq([i \in 1..Len(paragraphs) |-> word_count(paragraphs[i].text)])
      chars == SumSeq([i \in 1..Len(paragraphs) |-> Len(paragraphs[i].text)])
      nospace == SumSeq([i \in 1..Len(paragraphs) |-> characters_no_spaces(paragraphs[i].text)])
      sentences == SumSeq([i \in 1..Len(paragraphs) |-> sentence_count(paragraphs[i].text)])
      levels == {headings[i].level : i \in 1..Len(headings)}
      components ==
        << normalize(words, sentences * RefSentenceLength),
           normalize(nospace, words * RefWordLength),
           normalize(Cardinality(levels), RefHeadingLevels),
           normalize(Len(tables), Len(paragraphs) * RefTableDensity) >>
  IN [total_paragraphs |-> Len(paragraphs),
      total_words |-> words,
      total_characters |-> chars,
      total_characters_no_spaces |-> nospace,
      total_sentences |-> sentences,
      total_tables |-> Len(tables),
      total_headings |-> Len(headings),
      reading_time |-> reading_time(words),
      weights |-> weights,
      components |-> components,
      complexity |-> SumSeq([k \in 1..4 |-> weights[k] * components[k]])]

(***************************************************************************)
(* One analysis session of the engine on a loaded tree: classification,    *)
(* then headings; tables at any point; statistics once the three are done  *)
(***************************************************************************)
StyleNormal == <<"N", "o", "r", "m", "a", "l">>
Styles == {StyleNormal, HeadingStyleNames[1], HeadingStyleNames[3]}

TextIntroduction == <<"I", "n", "t", "r", "o", "d", "u", "c", "t", "i", "o", "n">>
TextSentenceOne ==
  <<"T", "h", "i", "s", " ", "i", "s", " ", "s", "e", "n", "t", "e", "n", "c", "e", " ",
    "o", "n", "e", ".">>
TextSentenceTwo ==
  <<"T", "h", "i", "s", " ", "i", "s", " ", "s", "e", "n", "t", "e", "n", "c", "e", " ",
    "t", "w", "o", ".">>
TextEllipsis == <<"W", "a", "i", "t", ".", ".", ".", " ", "w", "h", "a", "t", "?", "!">>
Texts == {EmptyString, TextIntroduction, TextSentenceOne, TextSentenceTwo, TextEllipsis}

SeqsUpTo(S, n) == UNION {[1..k -> S] : k \in 0..n}

ParagraphNodes == {[style_name |-> st, text |-> tx] : st \in Styles, tx \in Texts}

CellA == <<"a">>
CellB == <<" ", "b", " ">>
Cells == {CellA, CellB}
TableNodes == {[rows |-> rs] : rs \in SeqsUpTo(SeqsUpTo(Cells, MaxRowLen), MaxRows)}
RaggedTable == [rows |-> << <<CellA, CellB>>, <<CellB, CellA, CellA>>, <<CellA, CellA>> >>]

Trees ==
  {[loaded |-> TRUE, paragraphs |-> ps, tables |-> ts] :
     ps \in SeqsUpTo(ParagraphNodes, MaxParagraphs), ts \in {<<>>, <<RaggedTable>>}}
  \cup {[loaded |-> TRUE, paragraphs |-> <<>>, tables |-> <<t>>] : t \in TableNodes}

NoStats == aggregate(<<>>, <<>>, <<>>, <<0, 0, 0, 0>>)
SessionStart ==
  [done |-> {}, paragraphs |-> <<>>, headings |-> <<>>, tables |-> <<>>, stats |-> NoStats]

InitEngine ==
  /\ InitPage
  /\ ui.errorModal = Hidden
  /\ vFile = NoFile /\ vResult = NoValidation
  /\ json = NoJson /\ verdict = NoVerdict
  /\ tree \in Trees
  /\ session = SessionStart
  /\ xhr = NoXhr

EngineFrame == UNCHANGED <<fh, ui, app, rd, runs, vFile, vResult, tree, json, verdict, xhr>>

ClassifyParagraphs ==
  /\ tree.loaded /\ "paragraphs" \notin session.done
  /\ session' = [session EXCEPT !.paragraphs = classify(tree),
                                !.done = @ \cup {"paragraphs"}]
  /\ EngineFrame

BuildHeadings ==
  /\ "paragraphs" \in session.done /\ "headings" \notin session.done
  /\ session' = [session EXCEPT !.headings = build_headings(session.paragraphs),
                                !.done = @ \cup {"headings"}]
  /\ EngineFrame

ExtractTables ==
  /\ tree.loaded /\ "tables" \notin session.done
  /\ session' = [session EXCEPT !.tables = extract_tables(tree),
                                !.done = @ \cup {"tables"}]
  /\ EngineFrame

AggregateStatistics ==
  /\ {"paragraphs", "headings", "tables"} \subseteq session.done
  /\ "statistics" \notin session.done
  /\ \E weights \in Weightings :
       session' = [session EXCEPT
                     !.stats = aggregate(session.paragraphs, session.headings,
                                         session.tables, weights),
                     !.done = @ \cup {"statistics"}]
  /\ EngineFrame

NextEngine ==
  \/ ClassifyParagraphs
  \/ BuildHeadings
  \/ ExtractTables
  \/ AggregateStatistics

SpecEngine == InitEngine /\ [][NextEngine]_vars

(***************************************************************************)
(* What the specification says of the engine's outputs                     *)
(***************************************************************************)
TrimmedCell(cell) == IF cell = <<" ", "b", " ">> THEN <<"b">> ELSE cell

\* C12: for every extracted table, ragged ones included, columns is the
\* maximum row length, len(data) = rows, every row of data has exactly
\* columns entries, shorter rows are padded with empty strings and no cell
\* is dropped.
C12_TablesRectangular ==
  "tables" \in session.done =>
    /\ Len(session.tables) = Len(tree.tables)
    /\ \A i \in 1..Len(tree.tables) :
         LET src == tree.tables[i].rows
             t == session.tables[i]
         IN /\ t.rows = Len(src)
            /\ Len(t.data) = t.rows
            /\ \A r \in 1..Len(src) : Len(src[r]) <= t.columns
            /\ IF src = <<>> THEN t.columns = 0
               ELSE \E r \in 1..Len(src) : Len(src[r]) = t.columns
            /\ \A r \in 1..Len(src) :
                 /\ Len(t.data[r]) = t.columns
                 /\ \A c \in 1..t.columns :
                      t.data[r][c] = IF c <= Len(src[r]) THEN TrimmedCell(src[r][c])
                                     ELSE <<>>

\* the table with rows of length 2, 3, 2 has been extracted with 3 columns,
\* its first and third rows padded with one empty cell
C12_Witness ==
  /\ "tables" \in session.done
  /\ tree.tables = <<RaggedTable>>
  /\ session.tables[1].rows = 3 /\ session.tables[1].columns = 3
  /\ session.tables[1].data[1] = << <<"a">>, <<"b">>, <<>> >>
  /\ session.tables[1].data[3] = << <<"a">>, <<"a">>, <<>> >>

StatedLevel(style_name) ==
  IF style_name = <<"H", "e", "a", "d", "i", "n", "g", " ", "1">> THEN 1
  ELSE IF style_name = <<"H", "e", "a", "d", "i", "n", "g", " ", "3">> THEN 3
  ELSE NoLevel

\* C13: the heading list is exactly the heading paragraphs in source order:
\* total_headings = len(headings), index values are 0,1,2,..., paragraph_index
\* is strictly increasing and resolves to a ParagraphInfo with is_heading true
\* and the same level; level jumps are kept as they are.
C13_HeadingsInOrder ==
  /\ "headings" \in session.done =>
       LET hs == session.headings
           ps == session.paragraphs
       IN /\ Len(hs) = Cardinality({i \in 1..Len(tree.paragraphs) :
                          StatedLevel(tree.paragraphs[i].style_name) # NoLevel})
          /\ \A k \in 1..Len(hs) :
               /\ hs[k].index = k - 1
               /\ hs[k].paragraph_index \in 0..(Len(ps) - 1)
               /\ ps[hs[k].paragraph_index + 1].is_heading
               /\ ps[hs[k].paragraph_index + 1].heading_level = hs[k].level
               /\ hs[k].level = StatedLevel(tree.paragraphs[hs[k].paragraph_index + 1].style_name)
               /\ hs[k].text = tree.paragraphs[hs[k].paragraph_index + 1].text
          /\ \A k \in 1..(Len(hs) - 1) : hs[k].paragraph_index < hs[k + 1].paragraph_index
  /\ "statistics" \in session.done => session.stats.total_headings = Len(session.headings)

\* a document whose first and third paragraphs are headings of levels 1 and 3
C13_Witness ==
  /\ "statistics" \in session.done
  /\ Len(tree.paragraphs) = 3
  /\ [k \in 1..Len(session.headings) |-> session.headings[k].level] = <<1, 3>>
  /\ [k \in 1..Len(session.headings) |-> session.headings[k].paragraph_index] = <<0, 2>>

ScenarioTree ==
  [loaded |-> TRUE,
   paragraphs |-> << [style_name |-> HeadingStyleNames[1], text |-> TextIntroduction],
                     [style_name |-> StyleNormal, text |-> TextSentenceOne],
                     [style_name |-> StyleNormal, text |-> TextSentenceTwo] >>,
   tables |-> <<>>]

HasText(node) == node.text # <<>>

\* C15: a document with zero paragraphs yields total_paragraphs = 0,
\* total_words = 0, total_sentences = 0 and reading time 0.0; an empty
\* paragraph is still emitted and counted in total_paragraphs and adds 0 to
\* the word and character counts.
C15_EmptyParagraphs ==
  /\ "paragraphs" \in session.done =>
       /\ Len(session.paragraphs) = Len(tree.paragraphs)
       /\ \A i \in 1..Len(tree.paragraphs) :
            session.paragraphs[i].text = tree.paragraphs[i].text
  /\ "statistics" \in session.done =>
       LET st == session.stats
           others == aggregate(
                       classify([tree EXCEPT !.paragraphs = SelectSeq(@, HasText)]),
                       <<>>, <<>>, st.weights)
       IN /\ st.total_paragraphs = Len(tree.paragraphs)
          /\ tree.paragraphs = <<>> =>
               (st.total_words = 0 /\ st.total_sentences = 0 /\ st.reading_time = 0)
          /\ (\A i \in 1..Len(tree.paragraphs) : tree.paragraphs[i].text = <<>>) =>
               (st.total_words = 0 /\ st.total_characters = 0
                /\ st.total_characters_no_spaces = 0)
          /\ st.total_words = others.total_words
          /\ st.total_characters = others.total_characters
          /\ st.total_characters_no_spaces = others.total_characters_no_spaces

\* an empty paragraph followed by a four-word one: two paragraphs, four words
C15_Witness ==
  /\ "statistics" \in session.done
  /\ Len(tree.paragraphs) = 2
  /\ tree.paragraphs[1].text = <<>> /\ tree.paragraphs[2].text = TextSentenceOne
  /\ session.paragraphs[1].text = <<>>
  /\ session.stats.total_paragraphs = 2
  /\ session.stats.total_words = 4

MaxItems == 1

JString == [type |-> "string"]
JNull == [type |-> "null"]
JBoolean == [type |-> "boolean"]
JInteger(n) == [type |-> "integer", n |-> n]
JArray(items) == [type |-> "array", items |-> items]
JObject(members) == [type |-> "object", members |-> members]

StringSchema == [type |-> "string"]
BooleanSchema == [type |-> "boolean"]
IntegerSchema == [type |-> "integer"]
CountSchema == [type |-> "integer", minimum |-> 0]

DocumentInfoSchema ==
  [type |-> "object",
   properties |-> [file_name |-> StringSchema, file_size_bytes |-> IntegerSchema],
   required |-> {"file_name", "file_size_bytes"}]

MetadataSchema ==
  [type |-> "object",
   properties |-> [title |-> StringSchema, revision |-> IntegerSchema]]

StatisticsSchema ==
  [type |-> "object",
   properties |-> [total_paragraphs |-> CountSchema, total_words |-> CountSchema,
                   total_characters |-> CountSchema, total_headings |-> CountSchema],
   required |-> {"total_paragraphs", "total_words", "total_characters"}]

ParagraphsSchema ==
  [type |-> "array",
   items |-> [type |-> "object",
              properties |-> [index |-> CountSchema, text |-> StringSchema,
                              style_name |-> StringSchema, is_heading |-> BooleanSchema,
                              heading_level |-> [type |-> "integer", minimum |-> 0,
                                                 maximum |-> 9]],
              required |-> {"index", "text", "style_name"}]]

HeadingsSchema ==
  [type |-> "array",
   items |-> [type |-> "object",
              properties |-> [index |-> CountSchema, text |-> StringSchema,
                              level |-> [type |-> "integer", minimum |-> 0,
                                         maximum |-> 9],
                              style_name |-> StringSchema,
                              paragraph_index |-> CountSchema],
              required |-> {"index", "text", "level", "style_name", "paragraph_index"}]]

TablesSchema ==
  [type |-> "array",
   items |-> [type |-> "object",
              properties |-> [index |-> CountSchema, rows |-> CountSchema,
                              columns |-> CountSchema,
                              data |-> [type |-> "array",
                                        items |-> [type |-> "array",
                                                   items |-> StringSchema]]],
              required |-> {"index", "rows", "columns", "data"}]]

AnalysisInfoSchema ==
  [type |-> "object", properties |-> [analyzer_version |-> StringSchema]]

TopLevelRequiredWithMetadata == {"document_info", "statistics", "metadata"}

TopLevelRequired == {"document_info", "statistics"}

AnalysisSchema ==
  [type |-> "object",
   properties |-> [document_info |-> DocumentInfoSchema, metadata |-> MetadataSchema,
                   statistics |-> StatisticsSchema, paragraphs |-> ParagraphsSchema,
                   headings |-> HeadingsSchema, tables |-> TablesSchema,
                   raw_text |-> StringSchema, analysis_info |-> AnalysisInfoSchema],
   required |-> TopLevelRequired]

TopLevelKeys == DOMAIN AnalysisSchema.properties

RECURSIVE Valid(_, _)
Valid(v, schema) ==
  /\ v.type = schema.type
  /\ "minimum" \in DOMAIN schema => v.n >= schema.minimum
  /\ "maximum" \in DOMAIN schema => v.n <= schema.maximum
  /\ "required" \in DOMAIN schema => schema.required \subseteq DOMAIN v.members
  /\ "properties" \in DOMAIN schema =>
       \A k \in DOMAIN v.members \cap DOMAIN schema.properties :
          Valid(v.members[k], schema.properties[k])
  /\ "items" \in DOMAIN schema =>
       \A i \in 1..Len(v.items) : Valid(v.items[i], schema.items)

(* Outputs offered to the contract: per top-level key, a few values on    *)
(* both sides of what the schema allows.                                   *)
LevelCandidates == {-1, 0, 1, 5, 9, 10}

Without(f, k) == [x \in DOMAIN f \ {k} |-> f[x]]

DocumentInfoOk ==
  JObject([file_name |-> JString, file_size_bytes |-> JInteger(1024)])
DocumentInfos ==
  { DocumentInfoOk,
    JObject(Without(DocumentInfoOk.members, "file_name")),
    JObject([DocumentInfoOk.members EXCEPT !.file_size_bytes = JString]) }

StatisticsOk ==
  JObject([total_paragraphs |-> JInteger(1), total_words |-> JInteger(4),
           total_characters |-> JInteger(21)])
StatisticsObjects ==
  { StatisticsOk,
    JObject(Without(StatisticsOk.members, "total_words")),
    JObject([StatisticsOk.members EXCEPT !.total_words = JInteger(-1)]) }

ParagraphOk ==
  [index |-> JInteger(0), text |-> JString, style_name |-> JString,
   is_heading |-> JBoolean]
ParagraphItems ==
  {JObject(ParagraphOk)}
  \cup {JObject([x \in DOMAIN ParagraphOk \cup {"heading_level"} |->
                   IF x = "heading_level" THEN l ELSE ParagraphOk[x]]) :
          l \in {JInteger(n) : n \in LevelCandidates} \cup {JNull}}

HeadingOk ==
  [index |-> JInteger(0), text |-> JString, level |-> JInteger(1),
   style_name |-> JString, paragraph_index |-> JInteger(0)]
HeadingItems ==
  {JObject(Without(HeadingOk, "level"))}
  \cup {JObject([HeadingOk EXCEPT !.level = l]) :
          l \in {JInteger(n) : n \in LevelCandidates} \cup {JString}}

TableOk ==
  [index |-> JInteger(0), rows |-> JInteger(1), columns |-> JInteger(1),
   data |-> JArray(<< JArray(<<JString>>) >>)]
TableItems == {JObject(TableOk), JObject(Without(TableOk, "data"))}

Candidates(k) ==
  CASE k = "document_info" -> DocumentInfos
    [] k = "statistics" -> StatisticsObjects
    [] k = "metadata" -> {JObject([title |-> JString]), JString}
    [] k = "paragraphs" -> {JArray(items) : items \in SeqsUpTo(ParagraphItems, MaxItems)}
    [] k = "headings" -> {JArray(items) : items \in SeqsUpTo(HeadingItems, MaxItems)}
    [] k = "tables" -> {JArray(<<t>>) : t \in TableItems}
    [] k = "raw_text" -> {JString, JInteger(0)}
    [] k = "analysis_info" -> {JObject([analyzer_version |-> JString]), JString}

Extended(f, k, v) == [x \in DOMAIN f \cup {k} |-> IF x = k THEN v ELSE f[x]]

RECURSIVE ObjectsOver(_)
ObjectsOver(K) ==
  IF K = {} THEN {<< >>}
  ELSE LET k == CHOOSE x \in K : TRUE
       IN {Extended(f, k, v) : f \in ObjectsOver(K \ {k}), v \in Candidates(k)}

InitSchema ==
  /\ InitPage
  /\ ui.errorModal = Hidden
  /\ vFile = NoFile /\ vResult = NoValidation
  /\ tree = NoTree /\ session = NoSession
  /\ xhr = NoXhr
  /\ \E K \in SUBSET TopLevelKeys :
       \E members \in ObjectsOver(K) : json = [written |-> TRUE, members |-> members]
  /\ verdict = NoVerdict

ValidateOutput ==
  /\ json.written /\ verdict = NoVerdict
  /\ verdict' = IF Valid(JObject(json.members), AnalysisSchema) THEN "accepted"
                ELSE "rejected"
  /\ UNCHANGED <<fh, ui, app, rd, runs, vFile, vResult, tree, session, json, xhr>>

NextSchema == ValidateOutput

SpecSchema == InitSchema /\ [][NextSchema]_vars

(***************************************************************************)
(* What the specification says of the JSON contract                        *)
(***************************************************************************)
Accepted == json.written /\ verdict = "accepted"

ItemsOf(k) == IF k \in DOMAIN json.members THEN json.members[k].items ELSE << >>

\* C17: every heading level in an output accepted by the JSON contract
\* (HeadingInfo.level, and ParagraphInfo.heading_level when present) is
\* within [1,9]; no accepted output carries level 0.
C17_LevelsFromOneToNine ==
  Accepted =>
    /\ \A i \in 1..Len(ItemsOf("headings")) :
         ItemsOf("headings")[i].members.level.n \in 1..9
    /\ \A i \in 1..Len(ItemsOf("paragraphs")) :
         "heading_level" \in DOMAIN ItemsOf("paragraphs")[i].members =>
            ItemsOf("paragraphs")[i].members.heading_level.n \in 1..9

StatedOptional ==
  {"metadata", "paragraphs", "headings", "tables", "raw_text", "analysis_info"}

\* C18: exactly document_info and statistics are required at the top level;
\* metadata, paragraphs, headings, tables, raw_text and analysis_info are
\* optional: an output with only the two required keys is accepted, and an
\* output lacking either of them is rejected.
C18_RequiredTopLevelKeys ==
  (json.written /\ verdict # NoVerdict) =>
    /\ Accepted => {"document_info", "statistics"} \subseteq DOMAIN json.members
    /\ ({"document_info", "statistics"} \ DOMAIN json.members # {}) => verdict = "rejected"
    /\ json.members = [document_info |-> DocumentInfoOk, statistics |-> StatisticsOk]
         => Accepted
    /\ Accepted =>
         \A k \in StatedOptional \cap DOMAIN json.members :
            Valid(JObject(Without(json.members, k)), AnalysisSchema)

\* an output with the two required keys and nothing else has been accepted
C18_Witness ==
  /\ Accepted
  /\ DOMAIN json.members = {"document_info", "statistics"}

(***************************************************************************)
(* The page as a whole, continued                                          *)
(***************************************************************************)

\* C21: FileHandler.removeFile always runs to its end: currentFile is null,
\* the preview and the options section are hidden, the upload area is shown,
\* the progress is reset, and onFileRemoved has run, so that the
\* application's currentFile and currentAnalysisId are null and the
\* displayed results are cleared.
C21_RemoveFileCompletes ==
  [][ClickRemoveFile =>
       /\ ~removeFile(World).threw
       /\ "onFileRemoved" \in removeFile(World).calls
       /\ fh'.currentFile = NoFile
       /\ ~fh'.filePreviewShown /\ fh'.uploadAreaShown
       /\ "options-section" \notin ui'.visible
       /\ fh'.progressText = 0 /\ ~fh'.progressShown
       /\ app'.currentFile = NoFile /\ app'.currentAnalysisId = NoId
       /\ rd'.currentResults = "null" /\ rd'.panels = "empty"]_vars

\* C22: in every reachable state resetProgress, showProgress and
\* hideProgress complete without throwing: FileHandler.uploadProgress refers
\* to the progress element whenever they dereference it, and after
\* resetProgress the progress shown is 0% and the progress element is hidden.
C22_ProgressNeverThrows ==
  /\ fh.uploadProgress.isElement
  /\ ~showProgress(World).threw
  /\ ~hideProgress(World).threw
  /\ ~resetProgress(World).threw
  /\ resetProgress(World).fh.progressText = 0
  /\ ~resetProgress(World).fh.progressShown

\* C23: whenever no event handler is running, WordAnalyzerApp.currentFile
\* and FileHandler.currentFile are both null or the same file.
C23_CurrentFilesAgree == app.currentFile = fh.currentFile

\* C24: results of an abandoned analysis are never shown: an execution of
\* performAnalysis that was awaiting when New Analysis happened shows the
\* results section no more, sets currentAnalysisId no more and does not
\* overwrite the loading steps of a later analysis.  (While an execution is
\* in flight the application's currentFile is null only after New Analysis,
\* and a later execution is in flight only after New Analysis.)
C24_AbandonedStaysSilent ==
  [][\A i \in 1..MaxRuns :
       (i \in InFlight /\ RunStep(i)) =>
          /\ app.currentFile = NoFile =>
               /\ "results-section" \notin ui'.visible
               /\ app'.currentAnalysisId = app.currentAnalysisId
          /\ (\E j \in InFlight : i < j) => ui'.steps = ui.steps]_vars

\* C25: analysisInProgress is true exactly while an execution of
\* performAnalysis started by handleAnalysisStart has not finished.
C25_FlagTracksExecution == app.analysisInProgress <=> InFlight # {}

NumCompleted(steps) == Cardinality({k \in 1..4 : "completed" \in steps[k]})

\* C26: during an analysis run the progress indicator advances in the order
\* Uploading, Scanning, Paraphrasing, Complete: step k is completed when step
\* k+1 becomes active, the number of completed steps never decreases, step 3
\* is never shown active when autoParaphrase is off, and the results section
\* is shown only after step 4 is completed.  The run looked at is the one
\* started last.
C26_ProgressInOrder ==
  [][\A i \in {Len(runs)} :
       (i \in InFlight) =>
          /\ (i \in InFlight' /\ Len(runs') = Len(runs)) =>
               /\ NumCompleted(ui'.steps) >= NumCompleted(ui.steps)
               /\ \A k \in 1..3 :
                    ("active" \in ui'.steps[k + 1] /\ "active" \notin ui.steps[k + 1])
                       => "completed" \in ui'.steps[k]
               /\ ~runs[i].autoParaphrase => "active" \notin ui'.steps[3]
          /\ ("results-section" \in ui'.visible /\ "results-section" \notin ui.visible)
               => "completed" \in ui.steps[4]]_vars

\* C27: after updateLoadingStep(n, status), n in 1..4, steps 1..n-1 carry
\* 'completed', steps n+1..4 carry no class and step n carries exactly the
\* class of status; hence in every reachable state at most one step is
\* active, no step is both active and completed, and the completed steps
\* form a prefix of 1..4.
C27_StepsFormPrefix ==
  /\ \A n \in 1..4 : \A status \in {"active", "completed"} :
       \A k \in 1..4 :
          updateLoadingStep(ui, n, status).steps[k] =
            IF k < n THEN {"completed"} ELSE IF k = n THEN {status} ELSE {}
  /\ Cardinality({k \in 1..4 : "active" \in ui.steps[k]}) <= 1
  /\ \A k \in 1..4 : ~({"active", "completed"} \subseteq ui.steps[k])
  /\ \A k \in 2..4 : "completed" \in ui.steps[k] => "completed" \in ui.steps[k - 1]

\* steps 1 and 2 are completed and step 3 is the active one
C27_Witness == ui.steps = << {"completed"}, {"completed"}, {"active"}, {} >>

\* C28: in makeRequest the wait before attempt k+1 is retryDelay*k (1000 ms
\* before the second attempt, 2000 ms before the third); the next attempt
\* starts only when that wait is over; an execution has at most one attempt
\* outstanding; after the final failed attempt there is no wait.
C28_RetryWaits ==
  /\ [](\A i \in 1..MaxRuns : i \in InFlight =>
          LET r == runs[i] IN
            /\ r.pc = "retryWait" =>
                 /\ r.attempt \in 1..2
                 /\ r.wait = 1000 * r.attempt
                 /\ Len(r.outcomes) = r.attempt
            /\ r.pc = "fetch" => Len(r.outcomes) = r.attempt - 1)
  /\ [][\A i \in 1..MaxRuns : i \in InFlight =>
          LET r == runs[i]
              r2 == runs'[i]
          IN /\ (r.pc = "fetch" /\ r2.pc = "retryWait") =>
                  /\ r.attempt < 3
                  /\ r2.attempt = r.attempt
                  /\ r2.wait = retryDelay * r.attempt
             /\ (r.pc = "fetch" /\ r.attempt = 3) => r2.pc # "retryWait"
             /\ (r.attempt >= 1 /\ r2.pc = "fetch" /\ r2.attempt # r.attempt) =>
                  /\ r.pc = "retryWait"
                  /\ RetryWaitDone(i)
                  /\ r2.attempt = r.attempt + 1]_vars

\* the second attempt of a request has failed and the 2000 ms wait before the
\* third is running
C28_Witness ==
  \E i \in 1..MaxRuns :
    /\ i \in InFlight
    /\ runs[i].pc = "retryWait" /\ runs[i].attempt = 2 /\ runs[i].wait = 2000

(***************************************************************************)
(* APIClient.uploadFile and analyzeDocument taken alone: one call, the     *)
(* XMLHttpRequest it sends and the promise it returns.  The browser        *)
(* delivers exactly one of 'load', 'error', 'timeout' for a request that   *)
(* is not aborted (the code never aborts it), after any number of upload   *)
(* 'progress' events.  A promise keeps its first settlement; later calls   *)
(* of resolve or reject are ignored.  Response texts are sequences of      *)
(* characters.                                                             *)
(***************************************************************************)
MaxProgressEvents == 2
MaxTextLen == 2

Statuses == {199, 200, 204, 299, 300, 404, 500}
TextNull == <<"n", "u", "l", "l">>
ResponseTexts == SeqsUpTo({"{", "}", "1", "<"}, MaxTextLen) \cup {TextNull}

\* JSON.parse on these texts: an object, null or a number, or a SyntaxError
JSONparse(text) ==
  IF text = <<"{", "}">> THEN [ok |-> TRUE, value |-> "object"]
  ELSE IF text = TextNull THEN [ok |-> TRUE, value |-> "null"]
  ELSE IF text # <<>> /\ \A k \in 1..Len(text) : text[k] = "1"
    THEN [ok |-> TRUE, value |-> "number"]
  ELSE [ok |-> FALSE, value |-> "SyntaxError"]

\* the resolve and reject functions of the promise of uploadFile
resolve(x, value) ==
  [x EXCEPT !.settleCalls = @ + 1,
            !.promise = IF @ = "pending" THEN "resolved" ELSE @,
            !.value = IF x.promise = "pending" THEN value ELSE @]

reject(x, message) ==
  [x EXCEPT !.settleCalls = @ + 1,
            !.promise = IF @ = "pending" THEN "rejected" ELSE @,
            !.value = IF x.promise = "pending" THEN message ELSE @]

onLoadAnyStatus(x) ==
  IF JSONparse(x.responseText).ok
    THEN resolve(x, JSONparse(x.responseText).value)
    ELSE reject(x, "Invalid JSON response")

\* the 'load' listener
onLoad(x) ==
  IF x.status >= 200 /\ x.status < 300
    THEN IF JSONparse(x.responseText).ok
           THEN resolve(x, JSONparse(x.responseText).value)
           ELSE reject(x, "Invalid JSON response")
    ELSE reject(x, "Upload failed: status")

\* the 'error' listener
onError(x) == reject(x, "Upload failed: Network error")

\* the 'timeout' listener
onTimeout(x) == reject(x, "Upload failed: Request timeout")

UploadFrame ==
  UNCHANGED <<fh, ui, app, rd, runs, vFile, vResult, engineVars>>

\* analyzeDocument up to its await: the executor of uploadFile has built the
\* request, registered the listeners and sent it
CallAnalyzeDocument ==
  /\ xhr = NoXhr
  /\ xhr' = [readyState |-> "sent", sends |-> 1, progress |-> 0, event |-> "none",
             status |-> 0, responseText |-> <<>>, promise |-> "pending",
             settleCalls |-> 0, value |-> "none", analyzeDocument |-> "awaiting"]
  /\ UploadFrame

\* an upload 'progress' event: the callback of analyzeDocument logs it
UploadProgress ==
  /\ xhr.readyState = "sent" /\ xhr.progress < MaxProgressEvents
  /\ xhr' = [xhr EXCEPT !.progress = @ + 1]
  /\ UploadFrame

XhrLoad(status, text) ==
  /\ xhr.readyState = "sent"
  /\ xhr' = onLoad([xhr EXCEPT !.readyState = "done", !.event = "load",
                               !.status = status, !.responseText = text])
  /\ UploadFrame

XhrError ==
  /\ xhr.readyState = "sent"
  /\ xhr' = onError([xhr EXCEPT !.readyState = "done", !.event = "error"])
  /\ UploadFrame

XhrTimeout ==
  /\ xhr.readyState = "sent"
  /\ xhr' = onTimeout([xhr EXCEPT !.readyState = "done", !.event = "timeout"])
  /\ UploadFrame

\* analyzeDocument after its await: it returns the response, or wraps the
\* error and throws; it does not call uploadFile again
AnalyzeDocumentResumes ==
  /\ xhr.readyState # "none"
  /\ xhr.promise # "pending" /\ xhr.analyzeDocument = "awaiting"
  /\ xhr' = [xhr EXCEPT !.analyzeDocument =
               IF xhr.promise = "resolved" THEN "returned" ELSE "threw"]
  /\ UploadFrame

InitUpload ==
  /\ InitPage
  /\ vFile = NoFile /\ vResult = NoValidation
  /\ EngineIdle
  /\ xhr = NoXhr

NextUpload ==
  \/ CallAnalyzeDocument
  \/ UploadProgress
  \/ \E status \in Statuses : \E text \in ResponseTexts : XhrLoad(status, text)
  \/ XhrError
  \/ XhrTimeout
  \/ AnalyzeDocumentResumes

SpecUpload == InitUpload /\ [][NextUpload]_vars

\* the texts that are JSON: {} , null and the numbers 1, 11, ...
ParsesAsJson(text) ==
  text \in { <<"{", "}">>, <<"n", "u", "l", "l">> }
             \cup {[k \in 1..n |-> "1"] : n \in 1..Len(text)}

\* C29: the promise of uploadFile settles exactly once per upload and the
\* upload is sent exactly once (no retry): it resolves with the parsed body
\* if and only if 'load' arrives with a status in 200..299 and a body that
\* parses as JSON; it rejects on another status, an unparsable body, a
\* network error or a timeout.
C29_UploadSettlesOnce ==
  xhr.readyState # "none" =>
    /\ xhr.sends = 1
    /\ xhr.settleCalls <= 1
    /\ xhr.readyState = "sent" => (xhr.promise = "pending" /\ xhr.settleCalls = 0)
    /\ xhr.readyState = "done" =>
         /\ xhr.settleCalls = 1
         /\ xhr.promise \in {"resolved", "rejected"}
         /\ xhr.promise = "resolved" <=>
              /\ xhr.event = "load"
              /\ xhr.status \in 200..299
              /\ ParsesAsJson(xhr.responseText)
         /\ xhr.promise = "resolved" =>
              xhr.value = (IF xhr.responseText = <<"{", "}">> THEN "object"
                           ELSE IF xhr.responseText = TextNull THEN "null"
                           ELSE "number")
    /\ xhr.analyzeDocument = "returned" => xhr.promise = "resolved"
    /\ xhr.analyzeDocument = "threw" => xhr.promise = "rejected"

\* a 2xx response whose body does not parse has rejected the promise and
\* analyzeDocument has thrown
C29_Witness ==
  /\ xhr.readyState = "done" /\ xhr.event = "load"
  /\ xhr.status = 200 /\ xhr.responseText = <<"<">>
  /\ xhr.promise = "rejected" /\ xhr.settleCalls = 1 /\ xhr.sends = 1
  /\ xhr.analyzeDocument = "threw"

\* C30: Ctrl/Cmd+Enter starts an analysis only while the options section
\* is displayed: whenever UIController.currentSection is 'options-section'
\* that section is visible, and currentSection always names a section that
\* is shown.
C30_CurrentSectionShown ==
  /\ [](ui.currentSection = "options-section" => "options-section" \in ui.visible)
  /\ [](ui.currentSection \in Sections => ui.currentSection \in ui.visible)
  /\ [][(CtrlEnter /\ runs' # runs) => "options-section" \in ui.visible]_vars

(***************************************************************************)
(* The tabs of the results section and the 'Highlight Changes' button of   *)
(* the comparison panel.  ui.highlightChangesBtn is the button: whether it *)
(* carries the class 'active', and its click listeners in the order they   *)
(* were registered, which is the order the browser calls them in.          *)
(* UIController.bindEvents registers the first one when the page is built; *)
(* WordAnalyzerApp.handleTabSwitch registers a new arrow function on every *)
(* opening of the comparison tab (each is a distinct function object, so   *)
(* none replaces an earlier one).                                          *)
(***************************************************************************)
MaxTabOpenings == 2   \* openings of the comparison tab in one page session

Tabs == {"overview", "plagiarism", "paraphrasing", "comparison"}

\* UIController.toggleHighlights; showHighlights and hideHighlights set the
\* display of the highlight spans and touch neither the class nor the flag
toggleHighlights(w) == [w EXCEPT !.ui.highlightChangesBtn.active = ~@]

\* ResultDisplay.setHighlighting; updateComparisonView rewrites the two
\* comparison panes when there are current results
setHighlighting(r, enabled) ==
  LET r1 == [r EXCEPT !.highlightingEnabled = enabled]
  IN IF r.currentResults \notin {"null", "undefined"}
       THEN [r1 EXCEPT !.panels = "filled"]
       ELSE r1

\* WordAnalyzerApp.toggleHighlighting: reads the class the button carries
\* at the time the listener runs
toggleHighlighting(w) ==
  [w EXCEPT !.rd = setHighlighting(@, ~w.ui.highlightChangesBtn.active)]

\* dispatch of one 'click' on the button to its listeners, in order
RECURSIVE dispatchClick(_, _)
dispatchClick(w, listeners) ==
  IF listeners = <<>> THEN w
  ELSE dispatchClick(
         IF Head(listeners) = "toggleHighlights"
           THEN toggleHighlights(w)
           ELSE toggleHighlighting(w),
         Tail(listeners))

\* WordAnalyzerApp.handleTabSwitch
handleTabSwitch(w, tabId) ==
  IF tabId = "comparison"
    THEN [w EXCEPT !.ui.highlightChangesBtn.listeners =
                     Append(@, "toggleHighlighting")]
    ELSE w

\* UIController.switchTab, whose onTabSwitch is handleTabSwitch
switchTab(w, tabId) == handleTabSwitch([w EXCEPT !.ui.activeTab = tabId], tabId)

\* click on one of the tab buttons of the results section
ClickTab(tabId) ==
  /\ PointerFree
  /\ "results-section" \in ui.visible
  /\ tabId = "comparison" =>
       Len(ui.highlightChangesBtn.listeners) < 1 + MaxTabOpenings
  /\ Commit(handleGlobalError(switchTab(World, tabId)))
  /\ UNCHANGED <<runs, vFile, vResult, engineVars, xhr>>

\* click on 'Highlight Changes': the button lies in the comparison panel,
\* which is displayed only while it is the active one (components.css,
\* .tab-panel and .tab-panel.active)
ClickHighlightChanges ==
  /\ PointerFree
  /\ "results-section" \in ui.visible
  /\ ui.activeTab = "comparison"
  /\ Commit(handleGlobalError(
       dispatchClick(World, ui.highlightChangesBtn.listeners)))
  /\ UNCHANGED <<runs, vFile, vResult, engineVars, xhr>>

NextCompare ==
  \/ \E file \in {FileA} : SelectFile(file)
  \/ ClickStartAnalysis
  \/ ClickNewAnalysis
  \/ PressEscape
  \/ \E i \in 1..MaxRuns : RunStep(i)
  \/ \E tabId \in Tabs : ClickTab(tabId)
  \/ ClickHighlightChanges

SpecCompare == Init /\ [][NextCompare]_vars

\* C31: after any sequence of clicks on 'Highlight Changes', the comparison
\* tab having been opened any number of times, ResultDisplay's
\* highlightingEnabled is true exactly when the button carries the class
\* 'active'.
C31_HighlightingFollowsButton ==
  rd.highlightingEnabled <=> ui.highlightChangesBtn.active

====
